---- MODULE Spec2Model ----
(***************************************************************************)
(* State-machine models of the four command-line tools of the repository:  *)
(*   concat_audio_chapters.py  chapter selection, artifact files, ffmpeg   *)
(*   mean_timestamps.py        timestamp-pair reader and delay analyzer    *)
(*   merge_srt_and_txt.py      subtitle / translation merge                *)
(*   remove-audio-tracks.py    per-file probe and track removal            *)
(* The tools share no state; each has its own specification.  Text is      *)
(* modelled as sequences of one-character strings.  Times are integers:    *)
(* ticks (TicksPerMs per millisecond) in the chapter tool, milliseconds in *)
(* the timestamp tool.                                                     *)
(***************************************************************************)
EXTENDS Integers, Sequences, FiniteSets, TLC

VARIABLES
    \* concat_audio_chapters.py
    c_pc, chapters, selections, selected_chapters, c_files, concat_content,
    metadata_content, c_err,
    \* mean_timestamps.py : read_timestamps_from_file
    r_pc, r_file, r_line_num, scene_changes, r_skipped,
    \* mean_timestamps.py : analyze_sync_discrepancies
    a_pc, a_scenes, a_delays, a_labels, a_calls, a_report,
    \* merge_srt_and_txt.py
    m_pc, original_srt, translations, m_out, m_before, m_err,
    \* remove-audio-tracks.py
    t_pc, t_files, t_idx, t_env, t_probed, t_results,
    \* mean_timestamps.py : one call of parse_timestamp
    p_pc, p_in, p_result

c_vars == <<c_pc, chapters, selections, selected_chapters, c_files,
            concat_content, metadata_content, c_err>>
r_vars == <<r_pc, r_file, r_line_num, scene_changes, r_skipped>>
a_vars == <<a_pc, a_scenes, a_delays, a_labels, a_calls, a_report>>
m_vars == <<m_pc, original_srt, translations, m_out, m_before, m_err>>
t_vars == <<t_pc, t_files, t_idx, t_env, t_probed, t_results>>
p_vars == <<p_pc, p_in, p_result>>
vars == <<c_vars, r_vars, a_vars, m_vars, t_vars, p_vars>>

----------------------------------------------------------------------------
(* Bounds of the model *)

MaxChapters == 2
MaxStart == 1
MaxDur == 3
TicksPerMs == 2

----------------------------------------------------------------------------
(* Python text and list primitives *)

MinOf(S) == CHOOSE x \in S : \A y \in S : x <= y
MaxOf(S) == CHOOSE x \in S : \A y \in S : x >= y

\* s[a..b] that is empty when the range is empty
Slice(s, a, b) == IF a > b THEN <<>> ELSE SubSeq(s, a, b)

SeqsUpTo(S, n) == UNION {[1..k -> S] : k \in 0..n}

DigitChars == <<"0", "1", "2", "3", "4", "5", "6", "7", "8", "9">>
IsDigitChar(c) == \E d \in 1..10 : DigitChars[d] = c
DigitVal(c) == (CHOOSE d \in 1..10 : DigitChars[d] = c) - 1
IsSpace(c) == c = " "

\* str.strip()
Strip(s) ==
    LET keep == {i \in 1..Len(s) : ~IsSpace(s[i])}
    IN  IF keep = {} THEN <<>> ELSE SubSeq(s, MinOf(keep), MaxOf(keep))

\* str.split(sep): always at least one piece
RECURSIVE Split(_, _)
Split(s, sep) ==
    LET pos == {i \in 1..Len(s) : s[i] = sep}
    IN  IF pos = {} THEN <<s>>
        ELSE <<Slice(s, 1, MinOf(pos) - 1)>>
                 \o Split(Slice(s, MinOf(pos) + 1, Len(s)), sep)

\* str.isdigit(): non-empty and all digits
IsDigitStr(s) == Len(s) > 0 /\ \A i \in 1..Len(s) : IsDigitChar(s[i])

RECURSIVE DigitsValue(_)
DigitsValue(s) ==
    IF Len(s) = 0 THEN 0
    ELSE 10 * DigitsValue(Slice(s, 1, Len(s) - 1)) + DigitVal(s[Len(s)])

\* int(str): surrounding whitespace and one sign are accepted
PyIntOk(s) ==
    LET t == Strip(s)
    IN  /\ Len(t) > 0
        /\ IF t[1] \in {"+", "-"} THEN IsDigitStr(Tail(t)) ELSE IsDigitStr(t)
PyInt(s) ==
    LET t == Strip(s)
    IN  IF t[1] = "-" THEN 0 - DigitsValue(Tail(t))
        ELSE IF t[1] = "+" THEN DigitsValue(Tail(t))
        ELSE DigitsValue(t)

\* list[i] with Python's negative indices; IndexError outside -n..n-1
PyIndexOk(seq, i) == 0 - Len(seq) <= i /\ i <= Len(seq) - 1
PyIndex(seq, i) == IF i >= 0 THEN seq[i + 1] ELSE seq[Len(seq) + i + 1]

----------------------------------------------------------------------------
(* concat_audio_chapters.py *)

Titles == <<"A", "B", "C", "D">>

\* the chapter lists main() can load: finite times, end_time > start_time
ChapterTimes ==
    {te \in (0..MaxStart) \X (1..(MaxStart + MaxDur)) :
        te[2] > te[1] /\ te[2] - te[1] <= MaxDur}
ChapterLists ==
    {[i \in 1..Len(ts) |->
        [title |-> Titles[i], start_time |-> ts[i][1], end_time |-> ts[i][2]]] :
     ts \in SeqsUpTo(ChapterTimes, MaxChapters)}

\* what the user may type at the prompt
SelectionInputs ==
    { <<>>,
      <<"1">>,
      <<"2">>,
      <<"0">>,
      <<"9">>,
      <<"x">>,
      <<"2", ",", "1">>,
      <<"1", ",", "1">>,
      <<"1", ",", "2">>,
      <<"1", ",", "x", ",", "2">>,
      <<" ", "2", " ", ",", " ", "1">>,
      <<"1", ",", ",", "2">>,
      <<"-", "1">>,
      <<"1", ",", "9">>,
      <<"0", ",", "1">>,
      <<"1", "0">>,
      <<"0", "1">> }

\* line 18: the 0-based indices of the tokens that are all digits
selected_indices(sel) ==
    LET parts == Split(sel, ",")
        toks == [i \in 1..Len(parts) |-> Strip(parts[i])]
        nums == SelectSeq(toks, IsDigitStr)
    IN  [k \in 1..Len(nums) |-> DigitsValue(nums[k]) - 1]

\* line 20: the list comprehension raises IndexError or yields the subset
select_ok(chs, sel) ==
    \A k \in 1..Len(selected_indices(sel)) : PyIndexOk(chs, selected_indices(sel)[k])
select_chapters(chs, sel) ==
    [k \in 1..Len(selected_indices(sel)) |-> PyIndex(chs, selected_indices(sel)[k])]

\* int(x * 1000) for a non-negative time x given in ticks
ToMs(ticks) == ticks \div TicksPerMs

\* lines 41-54: the chapter markers, cumulative on the output timeline
RECURSIVE CumulativeEnd(_, _)
CumulativeEnd(sel, k) ==
    IF k = 0 THEN 0
    ELSE CumulativeEnd(sel, k - 1) + (sel[k].end_time - sel[k].start_time)

\* faulty variant: the marker starts at the chapter's offset in the source
MarkerStartMutant(sel, k) == sel[k].start_time
MarkerStart(sel, k) == CumulativeEnd(sel, k - 1)

MetadataMarkers(sel) ==
    [k \in 1..Len(sel) |->
        LET start_time == MarkerStart(sel, k)
            duration == sel[k].end_time - sel[k].start_time
            end_time == start_time + duration
        IN  [START |-> ToMs(start_time), END |-> ToMs(end_time),
             title |-> sel[k].title]]

\* lines 69-74: one segment per chapter with the source offsets
ConcatSegments(sel) ==
    [k \in 1..Len(sel) |->
        [inpoint |-> sel[k].start_time, outpoint |-> sel[k].end_time]]

InitConcatIdle ==
    /\ c_pc = "idle" /\ chapters = <<>> /\ selections = <<>>
    /\ selected_chapters = <<>> /\ c_files = {} /\ concat_content = <<>>
    /\ metadata_content = <<>> /\ c_err = "none"

InitConcat ==
    /\ c_pc = "load"
    /\ chapters \in ChapterLists
    /\ selections = <<>>
    /\ selected_chapters = <<>>
    /\ c_files = {}
    /\ concat_content = <<>>
    /\ metadata_content = <<>>
    /\ c_err = "none"

\* lines 99-101: an empty chapter list ends the run
LoadChapters ==
    /\ c_pc = "load"
    /\ c_pc' = IF chapters = <<>> THEN "done" ELSE "select"
    /\ UNCHANGED <<chapters, selections, selected_chapters, c_files,
                   concat_content, metadata_content, c_err>>
    /\ UNCHANGED <<r_vars, a_vars, m_vars, t_vars, p_vars>>

\* lines 113-116: prompt, select, stop when nothing was selected
SelectChapters ==
    /\ c_pc = "select"
    /\ \E sel \in SelectionInputs :
        /\ selections' = sel
        /\ IF ~select_ok(chapters, sel)
           THEN /\ c_err' = "IndexError"
                /\ c_pc' = "crashed"
                /\ selected_chapters' = <<>>
           ELSE /\ c_err' = "none"
                /\ selected_chapters' = select_chapters(chapters, sel)
                /\ c_pc' = IF select_chapters(chapters, sel) = <<>>
                           THEN "done" ELSE "create_concat"
    /\ UNCHANGED <<chapters, c_files, concat_content, metadata_content>>
    /\ UNCHANGED <<r_vars, a_vars, m_vars, t_vars, p_vars>>

\* line 123, create_ffmpeg_concat_file: the temporary file is created
\* (delete=False), then written and closed; either step may raise OSError
CreateConcatFile ==
    /\ c_pc = "create_concat"
    /\ \E outcome \in {"ok", "create_fails", "write_fails"} :
        /\ c_files' = IF outcome = "create_fails" THEN c_files
                      ELSE c_files \cup {"concat_list_file"}
        /\ concat_content' = IF outcome = "ok"
                             THEN ConcatSegments(selected_chapters)
                             ELSE concat_content
        /\ c_pc' = IF outcome = "ok" THEN "create_meta" ELSE "crashed"
        /\ c_err' = IF outcome = "ok" THEN "none" ELSE "OSError"
    /\ UNCHANGED <<chapters, selections, selected_chapters, metadata_content>>
    /\ UNCHANGED <<r_vars, a_vars, m_vars, t_vars, p_vars>>

\* line 124, create_ffmpeg_metadata_file: the content is built, then the
\* temporary file is created, written and closed; either step may raise
CreateMetadataFile ==
    /\ c_pc = "create_meta"
    /\ \E outcome \in {"ok", "create_fails", "write_fails"} :
        /\ c_files' = IF outcome = "create_fails" THEN c_files
                      ELSE c_files \cup {"metadata_file"}
        /\ metadata_content' = IF outcome = "ok"
                               THEN MetadataMarkers(selected_chapters)
                               ELSE metadata_content
        /\ c_pc' = IF outcome = "ok" THEN "run_ffmpeg" ELSE "crashed"
        /\ c_err' = IF outcome = "ok" THEN "none" ELSE "OSError"
    /\ UNCHANGED <<chapters, selections, selected_chapters, concat_content>>
    /\ UNCHANGED <<r_vars, a_vars, m_vars, t_vars, p_vars>>

\* lines 142-155: subprocess.run and the finally block that removes both files
RunFfmpeg ==
    /\ c_pc = "run_ffmpeg"
    /\ \E outcome \in {"ok", "nonzero", "missing"} :
        /\ c_err' = CASE outcome = "ok" -> "none"
                      [] outcome = "nonzero" -> "CalledProcessError"
                      [] outcome = "missing" -> "FileNotFoundError"
        /\ c_files' = c_files \ {"concat_list_file", "metadata_file"}
        /\ c_pc' = "done"
    /\ UNCHANGED <<chapters, selections, selected_chapters, concat_content,
                   metadata_content>>
    /\ UNCHANGED <<r_vars, a_vars, m_vars, t_vars, p_vars>>

NextConcat ==
    \/ LoadChapters
    \/ SelectChapters
    \/ CreateConcatFile
    \/ CreateMetadataFile
    \/ RunFfmpeg

----------------------------------------------------------------------------
(* Idle initial values of the tools a specification does not run *)

InitReaderIdle ==
    /\ r_pc = "idle" /\ r_file = <<>> /\ r_line_num = 0
    /\ scene_changes = <<>> /\ r_skipped = <<>>

InitAnalyzeIdle ==
    /\ a_pc = "idle" /\ a_scenes = <<>> /\ a_delays = <<>> /\ a_labels = <<>>
    /\ a_calls = {} /\ a_report = <<>>

InitMergeIdle ==
    /\ m_pc = "idle" /\ original_srt = <<>> /\ translations = <<>>
    /\ m_out = <<>> /\ m_before = <<>> /\ m_err = "none"

InitTracksIdle ==
    /\ t_pc = "idle" /\ t_files = <<>> /\ t_idx = 0 /\ t_env = <<>>
    /\ t_probed = {} /\ t_results = <<>>

InitParseIdle ==
    /\ p_pc = "idle" /\ p_in = <<>> /\ p_result = 0

\* the initial states: the tool at its start, the other tools not run
StartConcat ==
    /\ InitConcat
    /\ InitReaderIdle
    /\ InitAnalyzeIdle
    /\ InitMergeIdle
    /\ InitTracksIdle
    /\ InitParseIdle

SpecConcat == StartConcat /\ [][NextConcat]_vars

----------------------------------------------------------------------------
(* Claims about concat_audio_chapters.py *)

\* C1: once a temporary artifact has been created, no run ends (normally or
\* by an exception) with a created temporary file still on disk.
C1_NoTempFileLeftAtEnd ==
    c_pc \in {"done", "crashed"} => c_files = {}

\* the 1-based numbers the user typed, in typing order
TypedNumbers(sel) ==
    [k \in 1..Len(selected_indices(sel)) |-> selected_indices(sel)[k] + 1]

HasOutOfRangeNumber(chs, sel) ==
    \E k \in 1..Len(TypedNumbers(sel)) : TypedNumbers(sel)[k] \notin 1..Len(chs)

\* C2: when a typed number is outside 1..n (0 included), select_chapters fails
\* with an index error and no subset is returned.
C2_OutOfRangeIsIndexError ==
    (c_pc \notin {"idle", "load", "select"}
        /\ HasOutOfRangeNumber(chapters, selections))
    => (c_pc = "crashed" /\ c_err = "IndexError" /\ selected_chapters = <<>>)

MetadataWritten ==
    c_pc = "run_ffmpeg" \/ (c_pc = "done" /\ metadata_content # <<>>)

DurationOf(k) ==
    LET ch == chapters[TypedNumbers(selections)[k]]
    IN  ch.end_time - ch.start_time

RECURSIVE SumOfDurations(_)
SumOfDurations(k) ==
    IF k = 0 THEN 0 ELSE SumOfDurations(k - 1) + DurationOf(k)

C3_Case == MetadataWritten /\ ~HasOutOfRangeNumber(chapters, selections)

----------------------------------------------------------------------------
(* mean_timestamps.py : parse_timestamp, read_timestamps_from_file *)

MaxLines == 2

\* str.ljust(n, c)
RECURSIVE Ljust(_, _, _)
Ljust(s, n, c) == IF Len(s) >= n THEN s ELSE Ljust(Append(s, c), n, c)

Contains(s, c) == \E i \in 1..Len(s) : s[i] = c

\* lines 10-20: the colon-separated fields, <<>> when their count is not 2 or 3
TimestampFields(ts) ==
    LET parts == Split(Strip(ts), ":")
    IN  IF Len(parts) = 2 THEN <<<<"0">>, parts[1], parts[2]>>
        ELSE IF Len(parts) = 3 THEN parts
        ELSE <<>>

\* lines 23-27: seconds and milliseconds texts, <<>> when the unpacking of
\* seconds.split('.') fails
SecondsFields(seconds) ==
    IF Contains(seconds, ".")
    THEN IF Len(Split(seconds, ".")) = 2
         THEN <<Split(seconds, ".")[1], Ljust(Split(seconds, ".")[2], 3, "0")>>
         ELSE <<>>
    ELSE <<seconds, <<"0">>>>

\* parse_timestamp returns (True) or raises ValueError (False)
parse_ok(ts) ==
    /\ TimestampFields(ts) # <<>>
    /\ SecondsFields(TimestampFields(ts)[3]) # <<>>
    /\ PyIntOk(TimestampFields(ts)[1])
    /\ PyIntOk(TimestampFields(ts)[2])
    /\ PyIntOk(SecondsFields(TimestampFields(ts)[3])[1])
    /\ PyIntOk(SecondsFields(TimestampFields(ts)[3])[2])

\* lines 29-32, in milliseconds
parse_timestamp(ts) ==
    LET f == TimestampFields(ts)
        sf == SecondsFields(f[3])
    IN  PyInt(f[1]) * 3600000 + PyInt(f[2]) * 60000 + PyInt(sf[1]) * 1000
            + PyInt(sf[2])

\* line 55: re.match(r'(.+?)\s*-\s*(.+)', line) by backtracking.  A match is
\* <<k, j, l>>: group 1 is line[1..k], then j blanks, the hyphen, l blanks,
\* and group 2 is the non-empty rest.
AllSpaces(s, a, b) == \A i \in a..b : IsSpace(s[i])
\* the splits <<k, j, l>> that put the hyphen of the pattern on a hyphen of
\* the line and leave at least one character to each group
HyphenPlacements(line) ==
    UNION {{<<k, h - 1 - k, l>> : k \in 1..(h - 1), l \in 0..(Len(line) - h - 1)}
              : h \in {i \in 2..(Len(line) - 1) : line[i] = "-"}}
RegexMatches(line) ==
    {m \in HyphenPlacements(line) :
        /\ AllSpaces(line, m[1] + 1, m[1] + m[2])
        /\ AllSpaces(line, m[1] + m[2] + 2, m[1] + m[2] + 1 + m[3])}

\* (.+?) is lazy: the shortest group 1 first; \s* is greedy: the longest run
\* faulty variant: a greedy first group, (.+) for (.+?)
PreferredMatchGreedy(line) ==
    LET ms == RegexMatches(line)
        k == MaxOf({m[1] : m \in ms})
        j == MaxOf({m[2] : m \in {x \in ms : x[1] = k}})
        l == MaxOf({m[3] : m \in {x \in ms : x[1] = k /\ x[2] = j}})
    IN  <<k, j, l>>
PreferredMatch(line) ==
    LET ms == RegexMatches(line)
        k == MinOf({m[1] : m \in ms})
        j == MaxOf({m[2] : m \in {x \in ms : x[1] = k}})
        l == MaxOf({m[3] : m \in {x \in ms : x[1] = k /\ x[2] = j}})
    IN  <<k, j, l>>

\* match.groups(), <<>> when there is no match
regex_groups(line) ==
    IF RegexMatches(line) = {} THEN <<>>
    ELSE LET m == PreferredMatch(line)
         IN  <<Slice(line, 1, m[1]),
               Slice(line, m[1] + m[2] + m[3] + 2, Len(line))>>

\* lines 50-67 for one raw line
LineOutcome(raw) ==
    LET line == Strip(raw)
        g == regex_groups(line)
    IN  IF line = <<>> \/ line[1] = "#" THEN [kind |-> "ignored"]
        ELSE IF g = <<>> THEN [kind |-> "invalid_format", content |-> line]
        ELSE IF parse_ok(g[1]) /\ parse_ok(g[2])
             THEN [kind |-> "pair",
                   pair |-> <<parse_timestamp(g[1]), parse_timestamp(g[2])>>]
             ELSE [kind |-> "parse_error", content |-> line]

\* the lines a timestamps file may hold
SampleLines ==
    {
      <<"0", ":", "0", "1", " ", "-", " ", "0", ":", "0", "1", ".", "5">>,
      <<"#", " ", "c">>,
      <<>>,
      <<" ", " ">>,
      <<"b", "a", "d", " ", "l", "i", "n", "e">>,
      <<"0", ":", "0", "1", "-", "0", ":", "0", "2">>,
      <<"0", ":", "0", "1", " ", "-", " ", "0", ":", "0", "2", " ", "-", " ", "0", ":", "0", "3">>,
      <<"1", ":", "0", ":", "0", " ", "-", " ", "5", "9", ":", "5", "9">>,
      <<"0", ":", "0", "1", " ", "-", " ", "x">>,
      <<"5", " ", "-", " ", "0", ":", "0", "1">>,
      <<"0", ":", "0", "1", " ", "-", " ", "-", "0", ":", "0", "2">>,
      <<" ", "0", ":", "0", "3", " ", " ", "-", " ", " ", "0", ":", "0", "1", " ">>,
      <<"0", ":", "0", "1", " ", "-">>,
      <<"-", " ", "0", ":", "0", "2">>,
      <<" ", "#", " ", "c">>,
      <<"0", ":", "1", ".", "2", ".", "3", " ", "-", " ", "0", ":", "0", "1">>,
      <<"1", ":", "2", ":", "3", ":", "4", " ", "-", " ", "0", ":", "0", "1">> }

InitReader ==
    /\ r_pc = "reading"
    /\ r_file \in SeqsUpTo(SampleLines, MaxLines)
    /\ r_line_num = 0
    /\ scene_changes = <<>>
    /\ r_skipped = <<>>

\* lines 49-67: one iteration of the loop over the file
ReadLine ==
    /\ r_pc = "reading"
    /\ r_line_num < Len(r_file)
    /\ LET line_num == r_line_num + 1
           o == LineOutcome(r_file[line_num])
       IN  /\ r_line_num' = line_num
           /\ scene_changes' = IF o.kind = "pair"
                               THEN Append(scene_changes, o.pair)
                               ELSE scene_changes
           /\ r_skipped' = IF o.kind \in {"invalid_format", "parse_error"}
                           THEN Append(r_skipped,
                                    [line_num |-> line_num, content |-> o.content])
                           ELSE r_skipped
    /\ UNCHANGED <<r_pc, r_file>>
    /\ UNCHANGED <<c_vars, a_vars, m_vars, t_vars, p_vars>>

\* line 69: the loop is over, the list is returned
ReturnSceneChanges ==
    /\ r_pc = "reading"
    /\ r_line_num = Len(r_file)
    /\ r_pc' = "done"
    /\ UNCHANGED <<r_file, r_line_num, scene_changes, r_skipped>>
    /\ UNCHANGED <<c_vars, a_vars, m_vars, t_vars, p_vars>>

NextReader ==
    \/ ReadLine
    \/ ReturnSceneChanges

\* the initial states: the tool at its start, the other tools not run
StartReader ==
    /\ InitReader
    /\ InitConcatIdle
    /\ InitAnalyzeIdle
    /\ InitMergeIdle
    /\ InitTracksIdle
    /\ InitParseIdle

SpecReader == StartReader /\ [][NextReader]_vars

----------------------------------------------------------------------------
(* Claims about read_timestamps_from_file *)

IsIgnoredLine(raw) == Strip(raw) = <<>> \/ Strip(raw)[1] = "#"

LStrip(s) ==
    LET keep == {i \in 1..Len(s) : ~IsSpace(s[i])}
    IN  IF keep = {} THEN <<>> ELSE SubSeq(s, MinOf(keep), Len(s))
RStrip(s) ==
    LET keep == {i \in 1..Len(s) : ~IsSpace(s[i])}
    IN  IF keep = {} THEN <<>> ELSE SubSeq(s, 1, MaxOf(keep))

\* the claim's split: at the first " - " of the line
DashSplitPositions(line) ==
    {i \in 2..(Len(line) - 3) :
        line[i] = " " /\ line[i + 1] = "-" /\ line[i + 2] = " "}
DashSplit(line) ==
    IF DashSplitPositions(line) = {} THEN <<>>
    ELSE LET i == MinOf(DashSplitPositions(line))
         IN  <<Slice(line, 1, i - 1), Slice(line, i + 3, Len(line))>>

\* the code's split: at the first hyphen that is not the first character,
\* the blanks around it dropped; the hyphen must not end the line
HyphenSplitPositions(line) == {i \in 2..(Len(line) - 1) : line[i] = "-"}
HyphenSplit(line) ==
    IF HyphenSplitPositions(line) = {} THEN <<>>
    ELSE LET i == MinOf(HyphenSplitPositions(line))
         IN  <<RStrip(Slice(line, 1, i - 1)), LStrip(Slice(line, i + 1, Len(line)))>>

YieldsPair(tokens) ==
    tokens # <<>> /\ parse_ok(tokens[1]) /\ parse_ok(tokens[2])

\* the pairs and the skipped-line reports expected of the first n lines,
\* for a given way of splitting a line into two tokens
RECURSIVE ExpectedPairs(_, _, _)
ExpectedPairs(SplitOp(_), file, n) ==
    IF n = 0 THEN <<>>
    ELSE LET toks == SplitOp(Strip(file[n]))
             before == ExpectedPairs(SplitOp, file, n - 1)
         IN  IF ~IsIgnoredLine(file[n]) /\ YieldsPair(toks)
             THEN Append(before,
                      <<parse_timestamp(toks[1]), parse_timestamp(toks[2])>>)
             ELSE before

RECURSIVE ExpectedSkipped(_, _, _)
ExpectedSkipped(SplitOp(_), file, n) ==
    IF n = 0 THEN <<>>
    ELSE LET toks == SplitOp(Strip(file[n]))
             before == ExpectedSkipped(SplitOp, file, n - 1)
         IN  IF ~IsIgnoredLine(file[n]) /\ ~YieldsPair(toks)
             THEN Append(before, [line_num |-> n, content |-> Strip(file[n])])
             ELSE before

\* C4 (as stated): after any number of lines, the result holds, in file
\* order, exactly one pair for each non-blank, non-comment line that splits
\* at its first " - " into two tokens that parse; every other non-blank,
\* non-comment line is reported as skipped with its number and content.
C4_PairsAreTheSpacedDashLines ==
    /\ scene_changes = ExpectedPairs(DashSplit, r_file, r_line_num)
    /\ r_skipped = ExpectedSkipped(DashSplit, r_file, r_line_num)

\* C4 (amended): the same, the line being split at its first hyphen that is
\* not its first character, with the blanks around the hyphen optional.
C4_PairsAreTheHyphenLines ==
    /\ scene_changes = ExpectedPairs(HyphenSplit, r_file, r_line_num)
    /\ r_skipped = ExpectedSkipped(HyphenSplit, r_file, r_line_num)

\* a finished read of a file whose first line was skipped as unparseable and
\* whose later line still produced a pair
C4_Witness ==
    /\ r_pc = "done"
    /\ Len(r_skipped) >= 1
    /\ Len(scene_changes) >= 1
    /\ r_skipped[1].line_num = 1
    /\ r_line_num = Len(r_file)

----------------------------------------------------------------------------
(* mean_timestamps.py : analyze_sync_discrepancies.  Times and delays are  *)
(* whole milliseconds; a mean or median is a pair <<numerator, divisor>>.  *)

MaxPairs == 3

\* line 129: stdev < 0.001 s; line 131: stdev < 0.01 s
ExcellentMs == 1
GoodMs == 10

\* source timestamps of the scenes, in milliseconds
TimeVals == {0, 1, 12}

RECURSIVE SumSeq(_)
SumSeq(s) == IF s = <<>> THEN 0 ELSE Head(s) + SumSeq(Tail(s))

Range(s) == {s[i] : i \in 1..Len(s)}
CountOf(s, x) == Cardinality({i \in 1..Len(s) : s[i] = x})

\* sorted(delays)
Sorted(s) ==
    CHOOSE t \in [1..Len(s) -> Range(s)] :
        /\ \A i \in 1..(Len(s) - 1) : t[i] <= t[i + 1]
        /\ \A x \in Range(s) : CountOf(t, x) = CountOf(s, x)

\* statistics.mean, statistics.median as exact fractions
Mean(s) == <<SumSeq(s), Len(s)>>
Median(s) ==
    LET t == Sorted(s)
        n == Len(s)
    IN  IF n % 2 = 1 THEN <<t[(n + 1) \div 2], 1>>
        ELSE <<t[n \div 2] + t[n \div 2 + 1], 2>>

\* statistics.stdev(s) < ms milliseconds, for Len(s) >= 2:
\* the sample variance is (n * sum(x^2) - sum(x)^2) / (n * (n - 1))
StdevBelow(s, ms) ==
    LET n == Len(s)
        sq == [i \in 1..n |-> s[i] * s[i]]
    IN  n * SumSeq(sq) - SumSeq(s) * SumSeq(s) < ms * ms * n * (n - 1)

\* lines 107 and 128: the guard of every use of statistics.stdev
\* faulty variant: >= 1 for > 1
HasSeveralSamplesMutant(delays) == Len(delays) >= 1
HasSeveralSamples(delays) == Len(delays) > 1

\* lines 90-95
DirectionLabel(delay) ==
    IF delay > 0 THEN "later" ELSE IF delay < 0 THEN "earlier" ELSE "synced"

\* lines 118-121: occurrences per millisecond bin
DelayBins(delays) == [b \in Range(delays) |-> CountOf(delays, b)]

\* lines 99-142: the printed report, one record per item, in print order
Item(tag, val) == [tag |-> tag, val |-> val]
SummaryReport(delays) ==
    IF delays # <<>>
    THEN <<Item("total", <<Len(delays), 1>>),
           Item("mean", Mean(delays)),
           Item("median", Median(delays))>>
         \o (IF HasSeveralSamples(delays)
             THEN <<Item("stdev", <<>>)>>
             ELSE <<Item("stdev_not_applicable", <<>>)>>)
         \o <<Item("min", <<MinOf(Range(delays)), 1>>),
              Item("max", <<MaxOf(Range(delays)), 1>>),
              Item("range", <<MaxOf(Range(delays)) - MinOf(Range(delays)), 1>>),
              Item("distribution", DelayBins(delays))>>
         \o (IF HasSeveralSamples(delays)
             THEN (IF StdevBelow(delays, ExcellentMs)
                   THEN <<Item("excellent", <<>>)>>
                   ELSE IF StdevBelow(delays, GoodMs)
                   THEN <<Item("good", <<>>)>>
                   ELSE <<Item("inconsistent", <<>>)>>)
                  \o (IF StdevBelow(delays, GoodMs)
                      THEN <<Item("recommended_constant_offset", Mean(delays))>>
                      ELSE <<>>)
             ELSE <<Item("recommended_offset_single", <<delays[1], 1>>)>>)
    ELSE <<Item("no_valid_data", <<>>)>>

\* the statistics functions the report evaluates, with the sample count
SummaryCalls(delays) ==
    IF delays # <<>>
    THEN {[fn |-> f, n |-> Len(delays)] : f \in {"mean", "median", "min", "max"}}
         \cup (IF HasSeveralSamples(delays)
               THEN {[fn |-> "stdev", n |-> Len(delays)]} ELSE {})
    ELSE {}

InitAnalyze ==
    /\ a_pc = "scenes"
    /\ a_scenes \in SeqsUpTo(TimeVals \X TimeVals, MaxPairs)
    /\ a_delays = <<>>
    /\ a_labels = <<>>
    /\ a_calls = {}
    /\ a_report = <<>>

\* lines 79-96: one iteration of the per-scene loop
AnalyzeScene ==
    /\ a_pc = "scenes"
    /\ Len(a_delays) < Len(a_scenes)
    /\ LET sc == a_scenes[Len(a_delays) + 1]
           delay == sc[2] - sc[1]
       IN  /\ a_delays' = Append(a_delays, delay)
           /\ a_labels' = Append(a_labels, DirectionLabel(delay))
    /\ UNCHANGED <<a_pc, a_scenes, a_calls, a_report>>
    /\ UNCHANGED <<c_vars, r_vars, m_vars, t_vars, p_vars>>

\* lines 98-142: the statistical summary
Summarize ==
    /\ a_pc = "scenes"
    /\ Len(a_delays) = Len(a_scenes)
    /\ a_report' = SummaryReport(a_delays)
    /\ a_calls' = SummaryCalls(a_delays)
    /\ a_pc' = "done"
    /\ UNCHANGED <<a_scenes, a_delays, a_labels>>
    /\ UNCHANGED <<c_vars, r_vars, m_vars, t_vars, p_vars>>

NextAnalyze ==
    \/ AnalyzeScene
    \/ Summarize

\* the initial states: the tool at its start, the other tools not run
StartAnalyze ==
    /\ InitAnalyze
    /\ InitConcatIdle
    /\ InitReaderIdle
    /\ InitMergeIdle
    /\ InitTracksIdle
    /\ InitParseIdle

SpecAnalyze == StartAnalyze /\ [][NextAnalyze]_vars

----------------------------------------------------------------------------
(* Claims about analyze_sync_discrepancies *)

ReportTags == {a_report[i].tag : i \in 1..Len(a_report)}
TagCount(tags) == Cardinality({i \in 1..Len(a_report) : a_report[i].tag \in tags})
ReportValue(tag) ==
    a_report[CHOOSE i \in 1..Len(a_report) : a_report[i].tag = tag].val
ConsistencyTags == {"excellent", "good", "inconsistent"}

\* C5: mean, median, min and max are never evaluated over an empty sequence
\* and the standard deviation never over fewer than two samples; zero pairs
\* report only "no valid data"; one pair reports the standard deviation as
\* not applicable, no consistency class, and that delay as the offset; two
\* or more pairs report a standard deviation and exactly one class.
C5_StatisticsOnlyWhenDefined ==
    a_pc = "done" =>
        /\ \A c \in a_calls : c.n >= 1 /\ (c.fn = "stdev" => c.n >= 2)
        /\ Len(a_scenes) = 0 =>
               /\ a_calls = {}
               /\ ReportTags = {"no_valid_data"}
        /\ Len(a_scenes) = 1 =>
               /\ "stdev_not_applicable" \in ReportTags
               /\ "stdev" \notin ReportTags
               /\ ReportTags \cap ConsistencyTags = {}
               /\ TagCount({"recommended_offset_single"}) = 1
               /\ "recommended_constant_offset" \notin ReportTags
               /\ ReportValue("recommended_offset_single")
                      = <<a_scenes[1][2] - a_scenes[1][1], 1>>
        /\ Len(a_scenes) >= 2 =>
               /\ TagCount({"stdev"}) = 1
               /\ "stdev_not_applicable" \notin ReportTags
               /\ TagCount(ConsistencyTags) = 1
               /\ "no_valid_data" \notin ReportTags

\* a finished analysis of exactly one pair with a non-zero delay
C5_Witness ==
    /\ a_pc = "done"
    /\ Len(a_scenes) = 1
    /\ a_delays[1] # 0
    /\ "stdev_not_applicable" \in ReportTags

----------------------------------------------------------------------------
(* merge_srt_and_txt.py : merge_srt_with_translation *)

MaxBlocks == 3

\* parsed subtitle blocks (num, time, text) and translated lines
SampleBlocks ==
    { [num |-> "1", time |-> "00:00:01,000 --> 00:00:02,000", text |-> "Hello"],
      [num |-> "2", time |-> "00:00:03,000 --> 00:00:04,500", text |-> "Bye"] }
SampleTranslations == {"Hola", "Adios"}

\* the output path before the call: missing, or a file left by an earlier run
NoFile == [exists |-> FALSE, content |-> <<>>]
EarlierOutput ==
    [exists |-> TRUE,
     content |-> <<[num |-> "1", time |-> "earlier", text |-> "earlier"]>>]

\* line 25: the test that lets the merge go on
\* faulty variant: only too few translations are refused
CountsMatchMutant(srt, tr) == Len(srt) <= Len(tr)
CountsMatch(srt, tr) == Len(srt) = Len(tr)

\* line 29: zip() stops at the shorter sequence
ZipLen(srt, tr) == IF Len(srt) <= Len(tr) THEN Len(srt) ELSE Len(tr)

InitMerge ==
    /\ m_pc = "check"
    /\ original_srt \in SeqsUpTo(SampleBlocks, MaxBlocks)
    /\ translations \in SeqsUpTo(SampleTranslations, MaxBlocks)
    /\ m_before \in {NoFile, EarlierOutput}
    /\ m_out = m_before
    /\ m_err = "none"

\* lines 25-26
MergeCheck ==
    /\ m_pc = "check"
    /\ IF CountsMatch(original_srt, translations)
       THEN m_pc' = "open" /\ m_err' = "none"
       ELSE m_pc' = "failed" /\ m_err' = "ValueError"
    /\ UNCHANGED <<original_srt, translations, m_out, m_before>>
    /\ UNCHANGED <<c_vars, r_vars, a_vars, t_vars, p_vars>>

\* line 28: open(output_file, 'w') creates or truncates the file
MergeOpen ==
    /\ m_pc = "open"
    /\ m_out' = [exists |-> TRUE, content |-> <<>>]
    /\ m_pc' = "write"
    /\ UNCHANGED <<original_srt, translations, m_before, m_err>>
    /\ UNCHANGED <<c_vars, r_vars, a_vars, t_vars, p_vars>>

\* lines 29-30: one block written
MergeWrite ==
    /\ m_pc = "write"
    /\ Len(m_out.content) < ZipLen(original_srt, translations)
    /\ LET k == Len(m_out.content) + 1
       IN  m_out' = [m_out EXCEPT !.content =
                        Append(@, [num |-> original_srt[k].num,
                                   time |-> original_srt[k].time,
                                   text |-> translations[k]])]
    /\ UNCHANGED <<m_pc, original_srt, translations, m_before, m_err>>
    /\ UNCHANGED <<c_vars, r_vars, a_vars, t_vars, p_vars>>

\* the with block ends, the file is closed
MergeClose ==
    /\ m_pc = "write"
    /\ Len(m_out.content) = ZipLen(original_srt, translations)
    /\ m_pc' = "done"
    /\ UNCHANGED <<original_srt, translations, m_out, m_before, m_err>>
    /\ UNCHANGED <<c_vars, r_vars, a_vars, t_vars, p_vars>>

NextMerge ==
    \/ MergeCheck
    \/ MergeOpen
    \/ MergeWrite
    \/ MergeClose

\* the initial states: the tool at its start, the other tools not run
StartMerge ==
    /\ InitMerge
    /\ InitConcatIdle
    /\ InitReaderIdle
    /\ InitAnalyzeIdle
    /\ InitTracksIdle
    /\ InitParseIdle

SpecMerge == StartMerge /\ [][NextMerge]_vars

----------------------------------------------------------------------------
(* Claims about merge_srt_with_translation *)

\* C6: when the two counts differ the merge fails with the count-mismatch
\* error and the output file is left as it was; when they are equal the
\* output has one block per original block, in order, with the original
\* index and timing lines and the replacement text of the same position.
C6_MismatchWritesNothing ==
    /\ (m_pc # "check" /\ Len(original_srt) # Len(translations))
        => (m_pc = "failed" /\ m_err = "ValueError" /\ m_out = m_before)
    /\ (m_pc # "check" /\ Len(original_srt) = Len(translations))
        => m_pc \in {"open", "write", "done"}
    /\ m_pc = "done"
        => /\ m_out.exists
           /\ Len(m_out.content) = Len(original_srt)
           /\ \A k \in 1..Len(original_srt) :
                  m_out.content[k] = [num |-> original_srt[k].num,
                                      time |-> original_srt[k].time,
                                      text |-> translations[k]]

\* three original blocks against two translation lines, an earlier output
\* file in place: the merge has failed
C6_Witness ==
    /\ m_pc = "failed"
    /\ Len(original_srt) = 3
    /\ Len(translations) = 2
    /\ m_before = EarlierOutput
    /\ m_err = "ValueError"

----------------------------------------------------------------------------
(* remove-audio-tracks.py : get_track_info, process_files *)

MaxFiles == 2

\* One entry of the "tracks" array the probe prints; lacks names the key the
\* entry does not have ("none" when it has them all).
Entry(id, type, language, lacks) ==
    [id |-> id, type |-> type, language |-> language, lacks |-> lacks]

\* what the probe of a file may print on its standard output
ProbeOutputs ==
    { [json |-> FALSE, tracks |-> <<>>],
      [json |-> TRUE, tracks |-> <<>>],
      [json |-> TRUE,
       tracks |-> <<Entry(1, "audio", "eng", "none"),
                    Entry(2, "audio", "jpn", "none")>>],
      [json |-> TRUE,
       tracks |-> <<Entry(0, "video", "und", "properties"),
                    Entry(1, "audio", "jpn", "none")>>],
      [json |-> TRUE,
       tracks |-> <<Entry(1, "audio", "eng", "none"),
                    Entry(2, "audio", "eng", "id")>>],
      [json |-> TRUE,
       tracks |-> <<Entry(1, "audio", "eng", "type"),
                    Entry(2, "audio", "eng", "none")>>],
      [json |-> TRUE,
       tracks |-> <<Entry(0, "video", "eng", "none"),
                    Entry(1, "audio", "eng", "language"),
                    Entry(2, "subtitles", "eng", "none"),
                    Entry(3, "audio", "eng", "none")>>] }

\* the container files of the scan: the probe output and the exit status of
\* the removal command
SampleFiles == [probe : ProbeOutputs, tool_exit : {"ok", "nonzero"}]

\* which executables are on the PATH, and the command-line arguments
Environments ==
    [mkvmerge : BOOLEAN, mkvpropedit : BOOLEAN, in_place : BOOLEAN,
     dry_run : BOOLEAN, language : {"eng", "und"}]

\* lines 18-26: the dictionary appended for one entry
TrackOf(e) ==
    [id |-> e.id, type |-> e.type,
     language |-> IF e.lacks \in {"properties", "language"} THEN "und"
                  ELSE e.language]

\* lines 17-28: the loop appends track by track; a KeyError on an entry that
\* lacks "id" or "type" ends it, and the bare except keeps what was appended
RECURSIVE ParsedTracks(_)
ParsedTracks(entries) ==
    IF entries = <<>> THEN <<>>
    ELSE IF Head(entries).lacks \in {"id", "type"} THEN <<>>
    ELSE <<TrackOf(Head(entries))>> \o ParsedTracks(Tail(entries))

\* lines 8-30: output that is no JSON makes json.loads raise, caught as well
get_track_info(f) ==
    IF f.probe.json THEN ParsedTracks(f.probe.tracks) ELSE <<>>

\* lines 82-85
\* faulty variant: the track type is not tested
IsTrackToRemoveMutant(language, t) == t.language = language
IsTrackToRemove(language, t) == t.type = "audio" /\ t.language = language
audio_tracks_to_remove(tracks, language) ==
    LET hit == SelectSeq(tracks, LAMBDA t : IsTrackToRemove(language, t))
    IN  [k \in 1..Len(hit) |-> hit[k].id]

\* lines 32-49 and 51-73: what the removal of one file's tracks does;
\* "raise" is the FileNotFoundError of subprocess.run
RemovalOutcome(env, f) ==
    IF env.dry_run THEN "dry_run"
    ELSE IF env.in_place /\ ~env.mkvpropedit THEN "raise"
    ELSE IF ~env.in_place /\ ~env.mkvmerge THEN "raise"
    ELSE IF f.tool_exit = "ok" THEN "removed" ELSE "error_reported"

\* lines 80-94 for one file; the probe (line 13) runs outside any try
FileOutcome(env, f) ==
    IF ~env.mkvmerge THEN "raise"
    ELSE IF audio_tracks_to_remove(get_track_info(f), env.language) = <<>>
         THEN "no_tracks_warning"
         ELSE RemovalOutcome(env, f)

\* the command of lines 34 and 58, with the ids it names; <<>> when none is built
CommandOf(env, f) ==
    IF ~env.mkvmerge
           \/ audio_tracks_to_remove(get_track_info(f), env.language) = <<>>
    THEN <<>>
    ELSE <<[tool |-> IF env.in_place THEN "mkvpropedit" ELSE "mkvmerge",
            ids |-> audio_tracks_to_remove(get_track_info(f), env.language)]>>

InitTracks ==
    /\ t_pc = "walking"
    /\ t_files \in SeqsUpTo(SampleFiles, MaxFiles)
    /\ t_env \in Environments
    /\ t_idx = 0
    /\ t_probed = {}
    /\ t_results = <<>>

\* lines 78-94: one iteration of the loop over the files of the walk
ProcessFile ==
    /\ t_pc = "walking"
    /\ t_idx < Len(t_files)
    /\ LET i == t_idx + 1
           o == FileOutcome(t_env, t_files[i])
       IN  /\ t_probed' = IF t_env.mkvmerge THEN t_probed \cup {i} ELSE t_probed
           /\ t_results' = Append(t_results,
                               [outcome |-> o,
                                command |-> CommandOf(t_env, t_files[i])])
           /\ IF o = "raise"
              THEN t_pc' = "crashed" /\ t_idx' = t_idx
              ELSE t_pc' = t_pc /\ t_idx' = i
    /\ UNCHANGED <<t_files, t_env>>
    /\ UNCHANGED <<c_vars, r_vars, a_vars, m_vars, p_vars>>

\* the walk is over, process_files returns
FinishWalk ==
    /\ t_pc = "walking"
    /\ t_idx = Len(t_files)
    /\ t_pc' = "done"
    /\ UNCHANGED <<t_files, t_env, t_idx, t_probed, t_results>>
    /\ UNCHANGED <<c_vars, r_vars, a_vars, m_vars, p_vars>>

NextTracks ==
    \/ ProcessFile
    \/ FinishWalk

\* the initial states: the tool at its start, the other tools not run
StartTracks ==
    /\ InitTracks
    /\ InitConcatIdle
    /\ InitReaderIdle
    /\ InitAnalyzeIdle
    /\ InitMergeIdle
    /\ InitParseIdle

SpecTracks == StartTracks /\ [][NextTracks]_vars

----------------------------------------------------------------------------
(* Claims about process_files and get_track_info *)

\* C7: whatever an external tool does on one file (non-zero exit of the probe
\* or of the removal, or a missing executable), every other file of the scan
\* has been probed when the run ends.
C7_OtherFilesStillProbed ==
    t_pc \in {"done", "crashed"} =>
        \A i \in 1..Len(t_files) :
            (t_pc = "crashed" /\ i = t_idx + 1) \/ i \in t_probed

IsDefectiveProbe(f) ==
    \/ ~f.probe.json
    \/ \E k \in 1..Len(f.probe.tracks) : f.probe.tracks[k].lacks \in {"id", "type"}

\* C8: a file whose probe output is malformed, or holds an entry without id
\* or type at any position, is skipped with the warning and no remux or
\* delete command is built for it.
C8_DefectiveProbeMeansNoTracks ==
    \A i \in 1..Len(t_results) :
        (t_env.mkvmerge /\ IsDefectiveProbe(t_files[i]))
            => (t_results[i].outcome = "no_tracks_warning"
                    /\ t_results[i].command = <<>>)

\* the ids the claim expects for a well-formed probe output
EntryLanguage(e) ==
    IF e.lacks \in {"properties", "language"} THEN "und" ELSE e.language
RECURSIVE ExpectedIds(_, _)
ExpectedIds(entries, language) ==
    IF entries = <<>> THEN <<>>
    ELSE (IF Head(entries).type = "audio"
                /\ EntryLanguage(Head(entries)) = language
          THEN <<Head(entries).id>> ELSE <<>>)
         \o ExpectedIds(Tail(entries), language)

C9_Case(i) == t_env.mkvmerge /\ ~IsDefectiveProbe(t_files[i])

\* C9: for a well-formed probe output the ids handed to the removal step are
\* exactly the ids of the audio tracks of the target language (no language
\* property counting as "und"), in probe order; when there are none the file
\* is skipped with the warning and no command is built.
C9_RemovedIdsAreTargetAudio ==
    \A i \in 1..Len(t_results) :
        C9_Case(i) =>
            LET ids == ExpectedIds(t_files[i].probe.tracks, t_env.language)
                r == t_results[i]
            IN  /\ ids = <<>> => (r.outcome = "no_tracks_warning"
                                     /\ r.command = <<>>)
                /\ ids # <<>> => /\ r.outcome # "no_tracks_warning"
                                 /\ Len(r.command) = 1
                                 /\ r.command[1].ids = ids

\* target "und": a file with a video track, an audio track without language
\* property, and audio tracks of another language had exactly the audio
\* track without language handed to the removal
C9_Witness ==
    /\ t_env.language = "und"
    /\ Len(t_results) >= 1
    /\ C9_Case(1)
    /\ Len(t_files[1].probe.tracks) = 4
    /\ t_results[1].outcome = "removed"
    /\ t_results[1].command[1].ids = <<1>>

----------------------------------------------------------------------------
(* mean_timestamps.py : parse_timestamp applied to one timestamp string *)

MaxFracDigits == 4

FracDigitChars == {"0", "1", "9"}
FieldSep == <<":">>

\* the fields of a timestamp string: hour (<<>> when absent), minute, whole
\* seconds and the digits after the point (has_frac tells whether there is
\* a point)
TimestampInputs ==
    [h : {<<>>, <<"1">>}, m : {<<"0">>, <<"5", "9">>},
     s : {<<"0", "0">>, <<"5", "9">>},
     has_frac : BOOLEAN,
     frac : SeqsUpTo(FracDigitChars, MaxFracDigits)]

TimestampText(in) ==
    (IF in.h = <<>> THEN <<>> ELSE in.h \o FieldSep) \o in.m \o FieldSep \o in.s
        \o (IF in.has_frac THEN <<".">> \o in.frac ELSE <<>>)

InitParse ==
    /\ p_pc = "call"
    /\ p_in \in {in \in TimestampInputs : in.has_frac \/ in.frac = <<>>}
    /\ p_result = 0

\* lines 5-32: the call returns the seconds or raises ValueError
ParseTimestamp ==
    /\ p_pc = "call"
    /\ IF parse_ok(TimestampText(p_in))
       THEN /\ p_pc' = "returned"
            /\ p_result' = parse_timestamp(TimestampText(p_in))
       ELSE /\ p_pc' = "ValueError"
            /\ p_result' = p_result
    /\ UNCHANGED p_in
    /\ UNCHANGED <<c_vars, r_vars, a_vars, m_vars, t_vars>>

NextParse == ParseTimestamp

\* the initial states: the tool at its start, the other tools not run
StartParse ==
    /\ InitParse
    /\ InitConcatIdle
    /\ InitReaderIdle
    /\ InitAnalyzeIdle
    /\ InitMergeIdle
    /\ InitTracksIdle

SpecParse == StartParse /\ [][NextParse]_vars

WholeSecondsMs(in) ==
    1000 * (3600 * DigitsValue(in.h) + 60 * DigitsValue(in.m) + DigitsValue(in.s))

\* C10: for every accepted timestamp string, whatever the number of
\* fractional digits, the result lies in the whole second of its H, M, S
\* fields: between 1000*(3600H + 60M + S) and that plus 999 milliseconds.
C10_FractionBelowOneSecond ==
    p_pc = "returned" =>
        /\ p_result >= WholeSecondsMs(p_in)
        /\ p_result <= WholeSecondsMs(p_in) + 999

====
